---- MODULE Spec2Model ----
(***************************************************************************)
(* Biogenesis: the evolution-stage simulation (store/gameStore.ts), the    *)
(* phase switch and skip button (App.tsx), the narrative quiz              *)
(* (components/PangeaStoryteller.tsx) and the evolution factor of the      *)
(* ocean and land phases (components/FaseOceano.tsx, FasePangea.tsx).      *)
(*                                                                         *)
(* Numbers.  The program computes with floating point numbers; the model   *)
(* uses exact integers on a grid:                                          *)
(*   - temperature, energy, turbulence are in tenths      (0.8  is 8),     *)
(*   - conditionScore is in twentieths                    (0.7  is 14),    *)
(*   - progress and stability are in fifths of a percent  (100% is 500),   *)
(*   - delta is in whole seconds,                                          *)
(*   - an evolution factor is in 1/2000                   (0.625 is 1250). *)
(* With these units every product of the tick is an integer.               *)
(*                                                                         *)
(* The variable last is history: it records the operation that led to the  *)
(* state, for the properties that speak of one operation.                  *)
(***************************************************************************)
EXTENDS Integers, Sequences, FiniteSets

VARIABLES
    temperature,   \* parameters.temperature, tenths
    energy,        \* parameters.energy, tenths
    turbulence,    \* parameters.turbulence, tenths
    stage,         \* store.stage
    progress,      \* store.progress, fifths of a percent
    stability,     \* store.stability, fifths of a percent
    faseAtual,     \* App: the macro-phase on screen, 0 | 1 | 2
    stepAtual,     \* PangeaStoryteller: index of the current prompt
    sucesso,       \* PangeaStoryteller: success message shown, form hidden
    timers,        \* pending 2.5 s quiz timeouts, oldest first
    energiaLocal,  \* FaseAtmosfera: energy collected by clicks, 0..100
    atmTimers,     \* pending onFaseConcluida timeouts
    t,             \* the evolution factor of the phase on screen, 1/2000
    population,    \* the fish swarms LifeSpawner renders, in order
    plantGrowth,   \* LandFlora: plantGrowthRef.current, thousandths
    blend,         \* a call of lerp: its arguments and the value returned
    last           \* the operation that produced this state

vars == <<temperature, energy, turbulence, stage, progress, stability,
          faseAtual, stepAtual, sucesso, timers, energiaLocal, atmTimers,
          t, population, plantGrowth, blend, last>>

------------------------------------------------------------------------------
(* Bounds of the model *)

\* the longest frame time of a tick of SpecTick, in seconds
MaxDelta == 20
\* the longest frame time of a tick of Spec, in steps of 10 seconds
MaxFrames == 2
\* the longest frame time of a tick of SpecSim, in steps of 2 seconds
MaxSimFrames == 10
\* the most quiz timeouts pending at once
MaxTimers == 2
\* the most onFaseConcluida timeouts pending at once
MaxAtmTimers == 1

\* Spec: the frame times a tick draws from, and the slider positions
\* setParameter draws from (tenths)
Deltas == {0, 10, 10 * MaxFrames}
TempLevels == {5, 8}
EnergyLevels == {2, 8}
TurbLevels == {3, 10}

\* SpecTick: the states a single tick is applied to, and its frame times
TickDeltas == {0, 1, 2, MaxDelta}
TickLevels == {0, 2, 3, 5, 8, 10}
TickTurbLevels == {0, 3, 5, 10}
TickProgress == {0, 50, 250, 450, 475, 490, 500}
TickStability == {0, 25, 245, 250, 255, 275, 280, 500}

\* SpecSim: as Spec for the simulation alone, on a finer grid
SimDeltas == {0, 2, 2 * MaxSimFrames}
SimTempLevels == {5, 8}
SimEnergyLevels == {2, 5, 8}
SimTurbLevels == {0, 3, 10}

------------------------------------------------------------------------------
(* Stages *)

OceanStages == {"AminoAcids", "RNA", "Protocell", "Life"}
LandStages == {"Pangea", "Extinction"}
Stages == OceanStages \cup LandStages

Abs(x) == IF x < 0 THEN -x ELSE x
Min(a, b) == IF a < b THEN a ELSE b
Max(a, b) == IF a > b THEN a ELSE b

------------------------------------------------------------------------------
(* store/gameStore.ts: updateSimulation *)

\* the number NaN, which delta and stability can hold; it stands apart from
\* the numbers of the grid and is never used in arithmetic
NaN == -1000000

targetTemp(s) ==
    IF s = "AminoAcids" THEN 8
    ELSE IF s = "RNA" THEN 5
    ELSE IF s = "Protocell" THEN 3
    ELSE 5

targetEnergy(s) ==
    IF s = "AminoAcids" THEN 8
    ELSE IF s = "RNA" THEN 5
    ELSE IF s = "Protocell" THEN 2
    ELSE 5

\* conditionScore without the division of the distances by 2
conditionScore_NoHalf(s, temp, en) ==
    20 - 2 * (Abs(temp - targetTemp(s)) + Abs(en - targetEnergy(s)))

\* 1.0 - ((tempDist + energyDist) / 2), in twentieths
conditionScore(s, temp, en) ==
    20 - (Abs(temp - targetTemp(s)) + Abs(en - targetEnergy(s)))

\* newStability without Math.max(0, ...)
newStability_NoFloor(s, temp, en, turb, stab, delta) ==
    Min(500,
        stab + (IF conditionScore(s, temp, en) > 16 THEN 25 ELSE -25) * delta
             - turb * delta)

\* newStability with the threshold of the progress gate, 0.7, for 0.8
newStability_Threshold(s, temp, en, turb, stab, delta) ==
    Min(500, Max(0,
        stab + (IF conditionScore(s, temp, en) > 14 THEN 25 ELSE -25) * delta
             - turb * delta))

\* Math.min(100, Math.max(0, stability + (score > 0.8 ? 5 : -5) * delta
\*                                     - turbulence * 2 * delta))
\* a sum with NaN is NaN, and Math.max and Math.min of NaN are NaN
newStability(s, temp, en, turb, stab, delta) ==
    IF delta = NaN \/ stab = NaN
    THEN NaN
    ELSE Min(500, Max(0,
             stab + (IF conditionScore(s, temp, en) > 16 THEN 25 ELSE -25)
                        * delta
                  - turb * delta))

\* newProgress without the test of newStability > 50
newProgress_NoStabilityGate(s, temp, en, turb, stab, prog, delta) ==
    IF conditionScore(s, temp, en) > 14
    THEN prog + delta * 25
    ELSE prog

\* newProgress without the test of conditionScore > 0.7
newProgress_NoScoreGate(s, temp, en, turb, stab, prog, delta) ==
    IF newStability(s, temp, en, turb, stab, delta) # NaN
       /\ newStability(s, temp, en, turb, stab, delta) > 250
    THEN prog + delta * 25
    ELSE prog

\* progress, plus delta * 5 when stable and the conditions are good
\* (NaN > 50 is false)
newProgress(s, temp, en, turb, stab, prog, delta) ==
    IF newStability(s, temp, en, turb, stab, delta) # NaN
       /\ newStability(s, temp, en, turb, stab, delta) > 250
       /\ conditionScore(s, temp, en) > 14
    THEN prog + delta * 25
    ELSE prog

\* nextStage with a wrong name in the chain: Protocell goes back to RNA
nextStage_Typo(s) ==
    IF s = "AminoAcids" THEN "RNA"
    ELSE IF s = "RNA" THEN "Protocell"
    ELSE IF s = "Protocell" THEN "RNA"
    ELSE s

\* nextStage with Protocell left out of the chain
nextStage_SkipProtocell(s) ==
    IF s = "AminoAcids" THEN "RNA"
    ELSE IF s = "RNA" THEN "Life"
    ELSE s

nextStage(s) ==
    IF s = "AminoAcids" THEN "RNA"
    ELSE IF s = "RNA" THEN "Protocell"
    ELSE IF s = "Protocell" THEN "Life"
    ELSE s

\* updateSimulation carrying the progress above 100 into the next stage
updateSimulation_CarryOver(delta) ==
    LET ns == newStability(stage, temperature, energy, turbulence,
                           stability, delta)
        np == newProgress(stage, temperature, energy, turbulence,
                          stability, progress, delta)
    IN  IF np >= 500 /\ nextStage(stage) # stage
        THEN /\ stage' = nextStage(stage)
             /\ progress' = np - 500
             /\ stability' = 250
        ELSE /\ stage' = stage
             /\ progress' = Min(500, np)
             /\ stability' = ns

\* updateSimulation with newProgress > 100 for newProgress >= 100
updateSimulation_StrictThreshold(delta) ==
    LET ns == newStability(stage, temperature, energy, turbulence,
                           stability, delta)
        np == newProgress(stage, temperature, energy, turbulence,
                          stability, progress, delta)
    IN  IF np > 500 /\ nextStage(stage) # stage
        THEN /\ stage' = nextStage(stage)
             /\ progress' = 0
             /\ stability' = 250
        ELSE /\ stage' = stage
             /\ progress' = Min(500, np)
             /\ stability' = ns

\* updateSimulation without the test nextStage !== stage
updateSimulation_NoTerminalTest(delta) ==
    LET ns == newStability(stage, temperature, energy, turbulence,
                           stability, delta)
        np == newProgress(stage, temperature, energy, turbulence,
                          stability, progress, delta)
    IN  IF np >= 500
        THEN /\ stage' = nextStage(stage)
             /\ progress' = 0
             /\ stability' = 250
        ELSE /\ stage' = stage
             /\ progress' = Min(500, np)
             /\ stability' = ns

\* the body of updateSimulation: the store's stage, progress and stability
updateSimulation(delta) ==
    LET ns == newStability(stage, temperature, energy, turbulence,
                           stability, delta)
        np == newProgress(stage, temperature, energy, turbulence,
                          stability, progress, delta)
    IN  IF np >= 500 /\ nextStage(stage) # stage
        THEN /\ stage' = nextStage(stage)
             /\ progress' = 0
             /\ stability' = 250
        ELSE /\ stage' = stage
             /\ progress' = Min(500, np)
             /\ stability' = ns

------------------------------------------------------------------------------
(* The store's narrative actions.  gameStore.ts under src/ does not have    *)
(* them; PangeaStoryteller.tsx calls them.  Modelled from section 4.3.      *)

\* advance(progressTarget): progress is set to the target
avancarPangea(target) ==
    /\ progress' = target
    /\ UNCHANGED <<stage, stability>>

\* triggerTerminalEvent(): the stage becomes Extinction, progress 0
triggerExtincao ==
    /\ stage' = "Extinction"
    /\ progress' = 0
    /\ UNCHANGED stability

------------------------------------------------------------------------------
(* App.tsx: the phase on screen *)

stageToFase(s) ==
    IF s \in OceanStages THEN 1
    ELSE IF s \in LandStages THEN 2
    ELSE 0

\* the phase without the useEffect on [stage, faseAtual]
stageEffect_NoEffect(f, s) == f

\* the useEffect on [stage, faseAtual]: the phase after it has run, for the
\* phase f the handler left and the stage s of the store
stageEffect(f, s) ==
    IF f >= 1 /\ stageToFase(s) # f THEN stageToFase(s) ELSE f

\* FaseOceano.tsx and FasePangea.tsx: the STAGE_ORDER of each
STAGE_ORDER == <<"AminoAcids", "RNA", "Protocell", "Life">>
LAND_STAGE_ORDER == <<"Pangea", "Extinction">>

\* Array.prototype.indexOf: the zero-based position of s in order, else -1
indexOf(order, s) ==
    IF \E i \in 1..Len(order) : order[i] = s
    THEN (CHOOSE i \in 1..Len(order) : order[i] = s) - 1
    ELSE -1

\* evolutionFactor with a one-based index
evolutionFactor_OneBased(s, p) ==
    LET idx == indexOf(STAGE_ORDER, s) + 1
    IN  (idx * 2000 + Min(p, 500) * 4) \div Len(STAGE_ORDER)

\* FaseOceano.tsx: (idx + Math.min(progress, 100) / 100) / STAGE_ORDER.length
\* in 1/2000: idx is idx * 2000 and progress / 100 is progress * 4
evolutionFactor(s, p) ==
    LET idx == indexOf(STAGE_ORDER, s)
    IN  (idx * 2000 + Min(p, 500) * 4) \div Len(STAGE_ORDER)

\* the factor of FasePangea divided by the length of the ocean's order
evolutionFactorLand_OceanLength(s, p) ==
    IF s \in OceanStages THEN 0
    ELSE LET idx == indexOf(LAND_STAGE_ORDER, s)
         IN  IF idx = -1 THEN 2000
             ELSE (idx * 2000 + Min(p, 500) * 4) \div Len(STAGE_ORDER)

\* FasePangea.tsx: 0 for an ocean stage, else the same formula over
\* ["Pangea", "Extinction"]
evolutionFactorLand(s, p) ==
    IF s \in OceanStages THEN 0
    ELSE LET idx == indexOf(LAND_STAGE_ORDER, s)
         IN  IF idx = -1 THEN 2000
             ELSE (idx * 2000 + Min(p, 500) * 4) \div Len(LAND_STAGE_ORDER)

\* the factor the phase component computes when it renders: FaseOceano in
\* phase 1, FasePangea in phase 2; FaseAtmosfera (phase 0) computes none
Render(f, s, p) ==
    IF f = 1 THEN evolutionFactor(s, p)
    ELSE IF f = 2 THEN evolutionFactorLand(s, p)
    ELSE 0

------------------------------------------------------------------------------
(* components/LifeSpawner.tsx, rendered by FaseOceano *)

\* the order of atLeast
order == <<"AminoAcids", "RNA", "Protocell", "Life">>

\* atLeast over the six stages of the store
atLeast_SixStages(current, target) ==
    LET six == <<"AminoAcids", "RNA", "Protocell", "Life", "Pangea",
                 "Extinction">>
    IN  indexOf(six, current) >= indexOf(six, target)

\* order.indexOf(stage) >= order.indexOf(target)
atLeast(current, target) ==
    indexOf(order, current) >= indexOf(order, target)

\* an AnimatedFishSwarm element: the model's file name and the count
Swarm(m, n) == [modelPath |-> m, count |-> n]

\* LifeSpawner with the first swarm shown in the stage RNA only
LifeSpawner_ExactStage(s) ==
    (IF s = "RNA"
     THEN <<Swarm("animated_low_poly_fish", 12)>>
     ELSE <<>>)
    \o (IF atLeast(s, "Protocell")
        THEN <<Swarm("clown_fish_low_poly_animated", 10),
               Swarm("fish_rainbow_animated", 8)>>
        ELSE <<>>)
    \o (IF s = "Life"
        THEN <<Swarm("animated_low_poly_fish", 18),
               Swarm("clown_fish_low_poly_animated", 15),
               Swarm("fish_rainbow_animated", 10),
               Swarm("emperor_angelfish_update", 2)>>
        ELSE <<>>)

\* the swarms of the <group>, for the stage s of the store
LifeSpawner(s) ==
    (IF atLeast(s, "RNA")
     THEN <<Swarm("animated_low_poly_fish", 12)>>
     ELSE <<>>)
    \o (IF atLeast(s, "Protocell")
        THEN <<Swarm("clown_fish_low_poly_animated", 10),
               Swarm("fish_rainbow_animated", 8)>>
        ELSE <<>>)
    \o (IF s = "Life"
        THEN <<Swarm("animated_low_poly_fish", 18),
               Swarm("clown_fish_low_poly_animated", 15),
               Swarm("fish_rainbow_animated", 10),
               Swarm("emperor_angelfish_update", 2)>>
        ELSE <<>>)

------------------------------------------------------------------------------
(* The phase component on screen *)

\* PangeaStoryteller is mounted within FasePangea (phase 2).  When the phase
\* component is replaced its state is lost, its timeouts stay pending and
\* act on the store only.
Orphan(q) == [i \in 1..Len(q) |-> [q[i] EXCEPT !.live = FALSE]]

\* the phase becomes f (before the effect), the storyteller's state being
\* step, suc and q if it stays mounted
Show(f, step, suc, q) ==
    /\ faseAtual' = stageEffect(f, stage')
    /\ IF faseAtual = 2 /\ f = 2
       THEN /\ stepAtual' = step
            /\ sucesso' = suc
            /\ timers' = q
       ELSE /\ stepAtual' = 0
            /\ sucesso' = FALSE
            /\ timers' = Orphan(q)
    /\ IF faseAtual = 0 /\ f = 0
       THEN UNCHANGED energiaLocal
       ELSE energiaLocal' = 0
    /\ t' = Render(faseAtual', stage', progress')
    /\ population' = (IF faseAtual' = 1 THEN LifeSpawner(stage') ELSE <<>>)
    /\ plantGrowth' = (IF faseAtual = 2 /\ f = 2 THEN plantGrowth ELSE 0)
    /\ blend' = blend

\* the record of an operation: its name and argument (for setParameter the
\* name and value passed), and the stage and progress it started from
Op(name, a) == [op |-> name, arg |-> a, from |-> stage, prog |-> progress]

------------------------------------------------------------------------------
(* Operations *)

\* a tick whose set() replaces the state: the parameters fall back to the
\* initial ones
Tick_ReplaceState(delta) ==
    /\ faseAtual \in {1, 2}
    /\ updateSimulation(delta)
    /\ Show(faseAtual, stepAtual, sucesso, timers)
    /\ temperature' = 5
    /\ energy' = 2
    /\ turbulence' = 3
    /\ UNCHANGED atmTimers
    /\ last' = Op("tick", delta)

\* useFrame of FaseOceano and of FasePangea: updateSimulation(delta)
Tick(delta) ==
    /\ faseAtual \in {1, 2}
    /\ updateSimulation(delta)
    /\ Show(faseAtual, stepAtual, sucesso, timers)
    /\ UNCHANGED <<temperature, energy, turbulence, atmTimers>>
    /\ last' = Op("tick", delta)

\* LifeParameters (in FaseOceano): a slider calls setParameter
SetTemperature(v) ==
    /\ faseAtual = 1
    /\ temperature' = v
    /\ UNCHANGED <<energy, turbulence, stage, progress, stability, faseAtual,
                   stepAtual, sucesso, timers, energiaLocal, atmTimers, t,
                   population, plantGrowth,
                   blend>>
    /\ last' = Op("setParameter", [name |-> "temperature", value |-> v])

\* setParameter('energy', v) writing the field temperature
SetEnergy_WrongField(v) ==
    /\ faseAtual = 1
    /\ temperature' = v
    /\ UNCHANGED <<energy, turbulence, stage, progress, stability, faseAtual,
                   stepAtual, sucesso, timers, energiaLocal, atmTimers, t,
                   population, plantGrowth,
                   blend>>
    /\ last' = Op("setParameter", [name |-> "energy", value |-> v])

SetEnergy(v) ==
    /\ faseAtual = 1
    /\ energy' = v
    /\ UNCHANGED <<temperature, turbulence, stage, progress, stability,
                   faseAtual, stepAtual, sucesso, timers, energiaLocal,
                   atmTimers, t,
                   population, plantGrowth,
                   blend>>
    /\ last' = Op("setParameter", [name |-> "energy", value |-> v])

SetTurbulence(v) ==
    /\ faseAtual = 1
    /\ turbulence' = v
    /\ UNCHANGED <<temperature, energy, stage, progress, stability, faseAtual,
                   stepAtual, sucesso, timers, energiaLocal, atmTimers, t,
                   population, plantGrowth,
                   blend>>
    /\ last' = Op("setParameter", [name |-> "turbulence", value |-> v])

\* App.handleSkipPhase, one action per branch
SkipAtmosfera ==
    /\ faseAtual = 0
    /\ stage' = "AminoAcids"
    /\ progress' = 0
    /\ stability' = 500
    /\ Show(1, stepAtual, sucesso, timers)
    /\ UNCHANGED <<temperature, energy, turbulence, atmTimers>>
    /\ last' = Op("start", 0)

SkipOceano ==
    /\ faseAtual = 1
    /\ stage' = "Pangea"
    /\ progress' = 0
    /\ UNCHANGED stability
    /\ Show(faseAtual, stepAtual, sucesso, timers)
    /\ UNCHANGED <<temperature, energy, turbulence, atmTimers>>
    /\ last' = Op("skip", 0)

SkipPangea ==
    /\ faseAtual = 2
    /\ stage = "Pangea"
    /\ stage' = "Extinction"
    /\ progress' = 0
    /\ UNCHANGED stability
    /\ Show(faseAtual, stepAtual, sucesso, timers)
    /\ UNCHANGED <<temperature, energy, turbulence, atmTimers>>
    /\ last' = Op("skip", 0)

SkipRestart ==
    /\ faseAtual = 2
    /\ stage # "Pangea"
    /\ stage' = "AminoAcids"
    /\ progress' = 0
    /\ stability' = 500
    /\ Show(0, stepAtual, sucesso, timers)
    /\ UNCHANGED <<temperature, energy, turbulence, atmTimers>>
    /\ last' = Op("restart", 0)

\* handleSubmit accepting an answer while the success message is shown
SubmitCorrect_NoGate ==
    /\ faseAtual = 2
    /\ stage # "Extinction"
    /\ Len(timers) < MaxTimers
    /\ sucesso' = TRUE
    /\ timers' = Append(timers, [step |-> stepAtual, live |-> TRUE])
    /\ UNCHANGED <<temperature, energy, turbulence, stage, progress,
                   stability, faseAtual, stepAtual, energiaLocal, atmTimers, t,
                   population, plantGrowth,
                   blend>>
    /\ last' = Op("submit", 0)

\* PangeaStoryteller.handleSubmit with an answer that has a keyword
SubmitCorrect ==
    /\ faseAtual = 2
    /\ stage # "Extinction"
    /\ ~sucesso
    /\ Len(timers) < MaxTimers
    /\ sucesso' = TRUE
    /\ timers' = Append(timers, [step |-> stepAtual, live |-> TRUE])
    /\ UNCHANGED <<temperature, energy, turbulence, stage, progress,
                   stability, faseAtual, stepAtual, energiaLocal, atmTimers, t,
                   population, plantGrowth,
                   blend>>
    /\ last' = Op("submit", 0)

\* PangeaStoryteller.handleSubmit with an answer that has no keyword
SubmitWrong ==
    /\ faseAtual = 2
    /\ stage # "Extinction"
    /\ ~sucesso
    /\ UNCHANGED <<temperature, energy, turbulence, stage, progress,
                   stability, faseAtual, stepAtual, sucesso, timers,
                   energiaLocal, atmTimers, t,
                   population, plantGrowth,
                   blend>>
    /\ last' = Op("wrong", 0)

\* progressoAlvo with the targets of the first two prompts exchanged
progressoAlvo_Swapped(i) == IF i = 0 THEN 350 ELSE IF i = 1 THEN 150 ELSE 500

\* steps[i].progressoAlvo
progressoAlvo(i) == IF i = 0 THEN 150 ELSE IF i = 1 THEN 350 ELSE 500

\* the timeout set by a correct answer fires, with the step of its closure
QuizTimeout ==
    /\ timers # <<>>
    /\ LET h == Head(timers)
       IN  IF h.step = 2
           THEN /\ triggerExtincao
                /\ Show(faseAtual, stepAtual,
                        IF h.live THEN FALSE ELSE sucesso, Tail(timers))
                /\ last' = Op("triggerExtincao", h.step)
           ELSE /\ avancarPangea(progressoAlvo(h.step))
                /\ Show(faseAtual,
                        IF h.live THEN stepAtual + 1 ELSE stepAtual,
                        IF h.live THEN FALSE ELSE sucesso, Tail(timers))
                /\ last' = Op("avancarPangea", h.step)
    /\ UNCHANGED <<temperature, energy, turbulence, atmTimers>>

\* LandFlora.tsx: evoT, in thousandths, from the stage and progress
evoT(s, p) ==
    IF s = "Pangea" THEN 2 * p
    ELSE IF s = "Extinction" THEN 1000
    ELSE 0

\* evoT >= 0.3 ? 1.0 : 0.0, in thousandths
targetGrowth(s, p) == IF evoT(s, p) >= 300 THEN 1000 ELSE 0

\* THREE.MathUtils.lerp(x, y, t) = (1 - t) * x + t * y for t = delta * 1.5,
\* delta in tenths of a second: t is 15 * delta / 100; thousandths, rounded
\* down
lerpDelta(x, y, delta) ==
    ((100 - 15 * delta) * x + 15 * delta * y) \div 100

\* cur += (target - cur) * rate for a rate in hundredths per frame (0.02 in
\* FaseOceano, 0.03 in FasePangea), rounded down
lerpFixed(cur, target, rate) == cur + ((target - cur) * rate) \div 100

\* useFrame of LandFlora (within FasePangea): the growth of the plants
\* follows its target
LandFloraFrame(delta) ==
    /\ faseAtual = 2
    /\ plantGrowth' = lerpDelta(plantGrowth, targetGrowth(stage, progress),
                                delta)
    /\ UNCHANGED <<temperature, energy, turbulence, stage, progress,
                   stability, faseAtual, stepAtual, sucesso, timers,
                   energiaLocal, atmTimers, t, population, blend>>
    /\ last' = Op("floraFrame", delta)

\* FaseAtmosfera.handleClick
AtmClick ==
    /\ faseAtual = 0
    /\ LET nova == energiaLocal + 5
       IN  /\ energiaLocal' = Min(nova, 100)
           /\ IF nova >= 100
              THEN atmTimers < MaxAtmTimers /\ atmTimers' = atmTimers + 1
              ELSE UNCHANGED atmTimers
    /\ UNCHANGED <<temperature, energy, turbulence, stage, progress,
                   stability, faseAtual, stepAtual, sucesso, timers, t,
                   population, plantGrowth,
                   blend>>
    /\ last' = Op("click", 0)

\* the timeout set by handleClick fires: App's onFaseConcluida
FaseConcluida ==
    /\ atmTimers > 0
    /\ atmTimers' = atmTimers - 1
    /\ UNCHANGED <<stage, progress, stability>>
    /\ Show(1, stepAtual, sucesso, timers)
    /\ UNCHANGED <<temperature, energy, turbulence>>
    /\ last' = Op("concluida", 0)

------------------------------------------------------------------------------
(* Interpolation of the visual channels *)

\* The channels are JavaScript numbers, IEEE-754 doubles: a sign and a
\* magnitude of at most Mantissa significant bits. A magnitude is written
\* here in binary fixed point: bit i of Width has the weight 2^(i-1-FracBits).
Mantissa == 53
FracBits == 60
Width == 74
Bit == 1..Width

\* the magnitude with the bits f[i]
bits(f) == SubSeq(f, 1, Width)

ZeroMag == bits([i \in Bit |-> 0])

\* the carry into bit i of x + y: some lower bit makes one, and every bit
\* between passes it on
carry(x, y, i) ==
    IF \E j \in 1..(i - 1) :
          /\ x[j] + y[j] = 2
          /\ \A k \in (j + 1)..(i - 1) : x[k] + y[k] = 1
    THEN 1 ELSE 0

addMag(x, y) == bits([i \in Bit |-> (x[i] + y[i] + carry(x, y, i)) % 2])

\* the borrow from bit i of x - y
borrow(x, y, i) ==
    IF \E j \in 1..(i - 1) :
          /\ x[j] < y[j]
          /\ \A k \in (j + 1)..(i - 1) : x[k] = y[k]
    THEN 1 ELSE 0

subMag(x, y) == bits([i \in Bit |-> (x[i] - y[i] - borrow(x, y, i) + 2) % 2])

geMag(x, y) == borrow(x, y, Width + 1) = 0

\* the position of the leading bit, 0 for zero
msb(x) ==
    IF x = ZeroMag THEN 0
    ELSE CHOOSE i \in Bit : x[i] = 1 /\ \A j \in Bit : j > i => x[j] = 0

\* the nearest double of an exact magnitude, ties to even; sticky tells
\* that the exact value lies above x by less than the lowest bit
roundMag(x, sticky) ==
    LET cut == msb(x) - Mantissa + 1
    IN  IF cut <= 1 THEN x
        ELSE LET kept == bits([i \in Bit |-> IF i >= cut THEN x[i] ELSE 0])
                 low  == sticky \/ \E j \in 1..(cut - 2) : x[j] = 1
                 up   == x[cut - 1] = 1 /\ (low \/ x[cut] = 1)
             IN  IF up
                 THEN addMag(kept, [i \in Bit |-> IF i = cut THEN 1 ELSE 0])
                 ELSE kept

double(neg, mag) == [neg |-> neg /\ mag # ZeroMag, mag |-> mag]

\* a decimal literal of the source, n/d, read as a double: the bits of
\* n * 2^FracBits, divided by d from the leading bit down
abs(n) == IF n < 0 THEN -n ELSE n

\* 2^k modulo d, for k up to FracBits
pow2mod(k, d) == ((2^(k \div 2) % d) * (2^(k - k \div 2) % d)) % d

\* the integer part of n * 2^FracBits / 2^i, modulo d
above(n, d, i) ==
    IF i >= FracBits THEN (n \div 2^(i - FracBits)) % d
    ELSE ((n % d) * pow2mod(FracBits - i, d)) % d

\* bit i of n * 2^FracBits
nbit(n, i) == IF i <= FracBits THEN 0 ELSE (n \div 2^(i - FracBits - 1)) % 2

literal(n, d) ==
    double(n < 0,
           roundMag(bits([i \in Bit |->
                          (2 * above(abs(n), d, i) + nbit(abs(n), i)) \div d]),
                    above(abs(n), d, 0) # 0))

\* x + y and x - y of doubles
add(x, y) ==
    IF x.neg = y.neg
    THEN double(x.neg, roundMag(addMag(x.mag, y.mag), FALSE))
    ELSE IF geMag(x.mag, y.mag)
         THEN double(x.neg, roundMag(subMag(x.mag, y.mag), FALSE))
         ELSE double(y.neg, roundMag(subMag(y.mag, x.mag), FALSE))

sub(x, y) == add(x, [neg |-> ~y.neg, mag |-> y.mag])

\* x * t for t = k/4, k in 0..4: k times x, two bits to the right, rounded
RECURSIVE times(_, _)
times(x, k) == IF k = 0 THEN ZeroMag ELSE addMag(x, times(x, k - 1))

mul(x, k) ==
    LET p == times(x.mag, k)
    IN  double(x.neg,
               roundMag(bits([i \in Bit |->
                               IF i + 2 <= Width THEN p[i + 2] ELSE 0]),
                        p[1] = 1 \/ p[2] = 1))

\* lerp(a, b, t), with t = k/4
lerp(a, b, k) == add(a, mul(sub(b, a), k))

\* the pairs (start, end) of the scalar channels, as decimal literals n/d
OceanChannels ==
    { <<<<4, 10>>, <<8, 10>>>>,      \* hemiIntensity
      <<<<10, 1>>, <<30, 1>>>>,      \* sunIntensity
      <<<<6, 100>>, <<25, 100>>>>,   \* causticIntensity
      <<<<2, 10>>, <<55, 100>>>>,    \* sparkleOpacity
      <<<<80, 1>>, <<300, 1>>>>,     \* sparkleCount, mobile
      <<<<150, 1>>, <<600, 1>>>>,    \* sparkleCount
      <<<<5, 1>>, <<8, 1>>>>,        \* headlightIntensity
      <<<<8, 1>>, <<15, 1>>>>,       \* fogNear
      <<<<45, 1>>, <<70, 1>>>>,      \* fogFar
      <<<<5, 10>>, <<25, 10>>>> }    \* the point light

LandChannels ==
    { <<<<18, 10>>, <<3, 10>>>>,     \* sunIntensity
      <<<<4, 10>>, <<15, 100>>>>,    \* ambientIntensity
      <<<<50, 1>>, <<-5, 1>>>>,      \* sunY
      <<<<5, 10>>, <<3, 1>>>>,       \* camera height
      <<<<5, 10>>, <<15, 10>>>>,     \* camera target
      <<<<18, 1000>>, <<4, 100>>>> } \* fog density

Channels == OceanChannels \cup LandChannels

\* the interpolation factors: the evolution factor at the stage boundaries
Quarters == 0..4

\* no call of lerp yet
NoBlend == [start |-> <<4, 10>>, end |-> <<8, 10>>, t |-> 0,
            applied |-> FALSE, value |-> [neg |-> FALSE, mag |-> <<>>]]

\* a channel is computed from its pair and the factor
Interpolate ==
    /\ ~blend.applied
    /\ blend' = [blend EXCEPT
                   !.applied = TRUE,
                   !.value = lerp(literal(blend.start[1], blend.start[2]),
                                  literal(blend.end[1], blend.end[2]),
                                  blend.t)]
    /\ UNCHANGED <<temperature, energy, turbulence, stage, progress,
                   stability, faseAtual, stepAtual, sucesso, timers,
                   energiaLocal, atmTimers, t, population, plantGrowth>>
    /\ last' = Op("lerp", blend.t)

------------------------------------------------------------------------------
(* Specification *)

Init ==
    /\ temperature = 5
    /\ energy = 2
    /\ turbulence = 3
    /\ stage = "AminoAcids"
    /\ progress = 0
    /\ stability = 500
    /\ faseAtual = 0
    /\ stepAtual = 0
    /\ sucesso = FALSE
    /\ timers = <<>>
    /\ energiaLocal = 0
    /\ atmTimers = 0
    /\ t = 0
    /\ population = <<>>
    /\ plantGrowth = 0
    /\ blend = NoBlend
    /\ last = Op("init", 0)

Next ==
    \/ \E d \in Deltas : Tick(d)
    \/ \E v \in TempLevels : SetTemperature(v)
    \/ \E v \in EnergyLevels : SetEnergy(v)
    \/ \E v \in TurbLevels : SetTurbulence(v)
    \/ SkipAtmosfera
    \/ SkipOceano
    \/ SkipPangea
    \/ SkipRestart
    \/ SubmitCorrect
    \/ SubmitWrong
    \/ QuizTimeout
    \/ AtmClick
    \/ FaseConcluida

Spec == Init /\ [][Next]_vars

\* The simulation alone: the ocean phase is entered, then only ticks and
\* setParameter
NextSim ==
    \/ SkipAtmosfera
    \/ \E d \in SimDeltas : Tick(d)
    \/ \E v \in SimTempLevels : SetTemperature(v)
    \/ \E v \in SimEnergyLevels : SetEnergy(v)
    \/ \E v \in SimTurbLevels : SetTurbulence(v)

SpecSim == Init /\ [][NextSim]_vars

\* The store called with any number: setParameter with values below 0 and
\* above 1 (-0.5, 0.5, 1.5), updateSimulation with a delta that is NaN
AnyLevels == {-5, 5, 15}
AnyDeltas == {NaN, 10}

NextAny ==
    \/ SkipAtmosfera
    \/ \E d \in AnyDeltas : Tick(d)
    \/ \E v \in AnyLevels : SetTemperature(v)
    \/ \E v \in AnyLevels : SetEnergy(v)
    \/ \E v \in AnyLevels : SetTurbulence(v)

SpecAny == Init /\ [][NextAny]_vars

\* Parameters held constant: the ocean phase starts with any temperature,
\* energy and turbulence of the grid, then only ticks
FixedLevels == 0..10
FixedTurbLevels == {0, 3, 10}
FixedDeltas == {1, 4, MaxDelta}

InitFixed ==
    /\ temperature \in FixedLevels
    /\ energy \in FixedLevels
    /\ turbulence \in FixedTurbLevels
    /\ stage = "AminoAcids"
    /\ progress = 0
    /\ stability = 500
    /\ faseAtual = 1
    /\ stepAtual = 0
    /\ sucesso = FALSE
    /\ timers = <<>>
    /\ energiaLocal = 0
    /\ atmTimers = 0
    /\ t = Render(faseAtual, stage, progress)
    /\ population = LifeSpawner(stage)
    /\ plantGrowth = 0
    /\ blend = NoBlend
    /\ last = Op("init", 0)

NextFixed == \E d \in FixedDeltas : Tick(d)

SpecFixed == InitFixed /\ [][NextFixed]_vars

\* The parameters follow the stage: before every tick the temperature and
\* the energy are at the target of the current stage (the sliders are moved
\* there after a transition), the turbulence is any; frame times are > 0
TargetDeltas == {1, 4, 10}

AdjustTemperature ==
    /\ temperature # targetTemp(stage)
    /\ SetTemperature(targetTemp(stage))

AdjustEnergy ==
    /\ energy # targetEnergy(stage)
    /\ SetEnergy(targetEnergy(stage))

TargetTick(d) ==
    /\ temperature = targetTemp(stage)
    /\ energy = targetEnergy(stage)
    /\ Tick(d)

NextTarget ==
    \/ SkipAtmosfera
    \/ AdjustTemperature
    \/ AdjustEnergy
    \/ \E v \in TurbLevels : SetTurbulence(v)
    \/ \E d \in TargetDeltas : TargetTick(d)

\* frames keep coming while the ocean phase is on screen, and the sliders
\* reach the target
SpecTarget ==
    /\ Init
    /\ [][NextTarget]_vars
    /\ WF_vars(AdjustTemperature)
    /\ WF_vars(AdjustEnergy)
    /\ WF_vars(\E d \in TargetDeltas : TargetTick(d))

\* No user input: the ocean phase starts, then only ticks with a frame time
\* > 0, which keep coming
IdleDeltas == 1..MaxDelta

NextIdle ==
    \/ SkipAtmosfera
    \/ \E d \in IdleDeltas : Tick(d)

SpecIdle ==
    /\ Init
    /\ [][NextIdle]_vars
    /\ WF_vars(\E d \in IdleDeltas : Tick(d))

\* The land phase with the frames of LandFlora: frame times of 0, 0.4 s and
\* 1 s (tenths of a second)
FloraDeltas == {0, 4, 10}

NextFlora ==
    \/ SkipAtmosfera
    \/ SkipOceano
    \/ SkipPangea
    \/ \E d \in Deltas : Tick(d)
    \/ \E d \in FloraDeltas : LandFloraFrame(d)

SpecFlora == Init /\ [][NextFlora]_vars

\* the interpolation of one channel: any pair, any factor
InitBlend ==
    /\ temperature = 5
    /\ energy = 2
    /\ turbulence = 3
    /\ stage = "AminoAcids"
    /\ progress = 0
    /\ stability = 500
    /\ faseAtual = 1
    /\ stepAtual = 0
    /\ sucesso = FALSE
    /\ timers = <<>>
    /\ energiaLocal = 0
    /\ atmTimers = 0
    /\ t = Render(1, "AminoAcids", 0)
    /\ population = LifeSpawner("AminoAcids")
    /\ plantGrowth = 0
    /\ \E c \in Channels, k \in Quarters :
          blend = [start |-> c[1], end |-> c[2], t |-> k,
                   applied |-> FALSE, value |-> [neg |-> FALSE, mag |-> <<>>]]
    /\ last = [op |-> "start", arg |-> 0, from |-> "AminoAcids", prog |-> 0]

NextBlend == Interpolate

SpecBlend == InitBlend /\ [][NextBlend]_vars

\* One tick, applied to any state of the store: the inputs of updateSimulation
\* are drawn from grids.  Progress 100 is left out for the stages a tick
\* leaves as soon as it reaches 100.
InitTick ==
    /\ temperature \in TickLevels
    /\ energy \in TickLevels
    /\ turbulence \in TickTurbLevels
    /\ stage \in Stages
    /\ progress \in TickProgress
    /\ progress = 500 => nextStage(stage) = stage
    /\ stability \in TickStability
    /\ faseAtual = stageToFase(stage)
    /\ stepAtual = 0
    /\ sucesso = FALSE
    /\ timers = <<>>
    /\ energiaLocal = 0
    /\ atmTimers = 0
    /\ t = Render(faseAtual, stage, progress)
    /\ population = (IF faseAtual = 1 THEN LifeSpawner(stage) ELSE <<>>)
    /\ plantGrowth = 0
    /\ blend = NoBlend
    /\ last = Op("init", 0)

NextTick ==
    \E d \in TickDeltas : last.op = "init" /\ Tick(d)

SpecTick == InitTick /\ [][NextTick]_vars

------------------------------------------------------------------------------
(* Claims *)

\* the position of a stage in the order of the specification:
\* AminoAcids < RNA < Protocell < Life < Pangea < Extinction
Rank(s) ==
    CASE s = "AminoAcids" -> 0
      [] s = "RNA" -> 1
      [] s = "Protocell" -> 2
      [] s = "Life" -> 3
      [] s = "Pangea" -> 4
      [] s = "Extinction" -> 5

\* C1: in every state reached by ticks (delta >= 0) and setParameter calls
\* (values in [0,1]) from the initial state, stability is within [0,100].
C1_StabilityInRange == stability >= 0 /\ stability <= 500

\* a tick with delta > 0 has brought stability down to the floor
C1_Witness ==
    /\ last.op = "tick"
    /\ last.arg > 0
    /\ stability = 0

C3_ResetOnAdvance ==
    [][(stage' # stage /\ last'.op \in {"tick", "triggerExtincao", "skip"})
        => (progress' = 0 /\ stability' = 250)]_vars

\* C4: a tick with delta > 0 that keeps the stage leaves progress or raises
\* it by 5*delta (capped at 100); it raises it only when the stability of
\* the same tick is > 50 and conditionScore > 0.7; in AminoAcids, RNA and
\* Protocell a conditionScore <= 0.7 leaves progress unchanged; progress
\* never goes down.
C4_ProgressGate ==
    [][(last'.op = "tick" /\ last'.arg > 0 /\ stage' = stage) =>
        LET d == last'.arg
            tT == CASE stage = "AminoAcids" -> 8 [] stage = "RNA" -> 5
                    [] stage = "Protocell" -> 3 [] OTHER -> 5
            tE == CASE stage = "AminoAcids" -> 8 [] stage = "RNA" -> 5
                    [] stage = "Protocell" -> 2 [] OTHER -> 5
            score == 20 - (Abs(temperature - tT) + Abs(energy - tE))
            raised == IF progress + 25 * d > 500 THEN 500
                      ELSE progress + 25 * d
        IN  /\ progress' = progress \/ progress' = raised
            /\ progress' # progress => (stability' > 250 /\ score > 14)
            /\ (stage \in {"AminoAcids", "RNA", "Protocell"} /\ score <= 14)
                  => progress' = progress
            /\ progress' >= progress]_vars

\* a tick of one second at full stability left the progress of AminoAcids as
\* it was, the score being exactly 0.7
C4_Witness ==
    /\ last.op = "tick"
    /\ last.arg = 1
    /\ last.from = "AminoAcids"
    /\ stage = "AminoAcids"
    /\ temperature = 5
    /\ energy = 5
    /\ turbulence = 0
    /\ stability = 475
    /\ progress = last.prog

\* C5: a tick that brings progress to >= 100 in AminoAcids, RNA or
\* Protocell ends in the next stage with progress 0 and stability 50; no
\* tick moves the stage by more than one step, whatever delta.
C5_OneStep ==
    [][last'.op = "tick" =>
        /\ (stage \in {"AminoAcids", "RNA", "Protocell"}
            /\ newProgress(stage, temperature, energy, turbulence,
                           stability, progress, last'.arg) >= 500)
              => /\ Rank(stage') = Rank(stage) + 1
                 /\ progress' = 0
                 /\ stability' = 250
        /\ Rank(stage') - Rank(stage) \in {0, 1}]_vars

\* the longest tick, from 90% of Protocell, ended at Life with progress 0
C5_Witness ==
    /\ last.op = "tick"
    /\ last.arg = MaxDelta
    /\ last.from = "Protocell"
    /\ last.prog = 450
    /\ stage = "Life"
    /\ progress = 0
    /\ stability = 250

\* C6: from Life, ticks and setParameter keep the stage Life and progress at
\* most 100; a tick at Life that finds progress >= 100 (kept, or raised past
\* it) leaves progress 100 and sets stability as any tick does, not to 50.
C6_LifeAbsorbing ==
    [][(stage = "Life" /\ last'.op \in {"tick", "setParameter"}) =>
        LET d == last'.arg
            score == 20 - (Abs(temperature - 5) + Abs(energy - 5))
            raw == stability + (IF score > 16 THEN 25 ELSE -25) * d
                             - turbulence * d
        IN  /\ stage' = "Life"
            /\ progress' <= 500
            /\ (/\ last'.op = "tick"
                /\ newProgress(stage, temperature, energy, turbulence,
                               stability, progress, d) >= 500)
                  => /\ progress' = 500
                     /\ stability' = Min(500, Max(0, raw))]_vars

\* a tick with delta > 0 at Life with progress 100, stability not 50 after
C6_Witness ==
    /\ last.op = "tick"
    /\ last.arg > 0
    /\ last.from = "Life"
    /\ last.prog = 500
    /\ stage = "Life"
    /\ progress = 500
    /\ stability > 250

\* C7: a tick that keeps the stage sets stability to
\* clamp(stability + (conditionScore > 0.8 ? +5 : -5)*delta
\*       - turbulence*2*delta, 0, 100), conditionScore against the target of
\* the stage: AminoAcids (0.8,0.8), RNA (0.5,0.5), Protocell (0.3,0.2), and
\* (0.5,0.5) for the stages without a target of their own; at the AminoAcids
\* target with stability 100, progress 0 and delta 1 stability stays 100 and
\* progress becomes 5, for turbulence 0 and for turbulence 1.
C7_StabilityFormula ==
    [][(last'.op = "tick" /\ stage' = stage) =>
        LET d == last'.arg
            tT == CASE stage = "AminoAcids" -> 8 [] stage = "RNA" -> 5
                    [] stage = "Protocell" -> 3 [] OTHER -> 5
            tE == CASE stage = "AminoAcids" -> 8 [] stage = "RNA" -> 5
                    [] stage = "Protocell" -> 2 [] OTHER -> 5
            score == 20 - (Abs(temperature - tT) + Abs(energy - tE))
            raw == stability + (IF score > 16 THEN 25 ELSE -25) * d
                             - turbulence * d
        IN  /\ stability' = (IF raw < 0 THEN 0
                             ELSE IF raw > 500 THEN 500 ELSE raw)
            /\ (/\ stage = "AminoAcids" /\ temperature = 8 /\ energy = 8
                /\ turbulence \in {0, 10} /\ stability = 500 /\ progress = 0
                /\ d = 1)
                  => (stability' = 500 /\ progress' = 25)]_vars

\* scenario 2: turbulence 1 at the AminoAcids target, after a tick of 1 s
C7_Witness ==
    /\ last.op = "tick"
    /\ last.arg = 1
    /\ last.from = "AminoAcids"
    /\ last.prog = 0
    /\ stage = "AminoAcids"
    /\ temperature = 8
    /\ energy = 8
    /\ turbulence = 10
    /\ stability = 500
    /\ progress = 25

\* C8: in the ocean phase the evolution factor is
\* (indexOf(stage) + min(progress,100)/100)/4; it is within [0,1], it is
\* 0.625 at (Protocell, 50) and it is 1.0 only at (Life, 100).
C8_OceanFactor ==
    (faseAtual = 1 /\ stage \in OceanStages) =>
        /\ t = Rank(stage) * 500 + Min(progress, 500)
        /\ t >= 0
        /\ t <= 2000
        /\ (stage = "Protocell" /\ progress = 250) => t = 1250
        /\ t = 2000 <=> (stage = "Life" /\ progress = 500)

\* scenario 5: the factor rendered at (Protocell, 50) after a tick
C8_Witness ==
    /\ last.op = "tick"
    /\ faseAtual = 1
    /\ stage = "Protocell"
    /\ progress = 250
    /\ t = 1250

\* C9: the evolution factor of the phase on screen never decreases from a
\* state to the next while the phase stays the same.
C9_FactorMonotonic == [][faseAtual' = faseAtual => t' >= t]_vars

\* C10: advance sets progress to its target (30 after prompt 1, 70 after
\* prompt 2) whatever it was and keeps stage, stability and parameters;
\* triggerTerminalEvent sets stage Extinction and progress 0; at Extinction
\* no tick and no quiz event changes the stage.
C10_NarrativeEvents ==
    [][/\ last'.op = "avancarPangea" =>
            /\ last'.arg \in {0, 1}
            /\ progress' = (IF last'.arg = 0 THEN 150 ELSE 350)
            /\ UNCHANGED <<stage, stability, temperature, energy, turbulence>>
       /\ last'.op = "triggerExtincao" =>
            /\ stage' = "Extinction"
            /\ progress' = 0
       /\ (/\ stage = "Extinction"
           /\ last'.op \in {"tick", "submit", "wrong", "avancarPangea",
                            "triggerExtincao"})
            => stage' = "Extinction"]_vars

\* advance(70) has lowered a progress above 70 to 70 in Pangea
C10_Witness ==
    /\ last.op = "avancarPangea"
    /\ last.arg = 1
    /\ last.from = "Pangea"
    /\ last.prog > 350
    /\ progress = 350

\* C11: while the stage is Pangea or Extinction a tick changes neither
\* progress nor stability nor the stage, whatever the parameters.
C11_TickFrozenOnLand ==
    [][(stage \in LandStages /\ last'.op = "tick")
        => UNCHANGED <<progress, stability, stage>>]_vars

\* C12: while the stage is Pangea, progress never decreases from a state to
\* the next, for ticks and the quiz events advance(30) and advance(70) in any
\* interleaving.
C12_PangeaProgressMonotonic ==
    [][(/\ stage = "Pangea"
        /\ stage' = "Pangea"
        /\ last'.op \in {"tick", "avancarPangea"})
        => progress' >= progress]_vars

C14_SetParameterFrame ==
    [][last'.op = "setParameter" =>
        LET a == last'.arg
        IN  /\ a.name \in {"temperature", "energy", "turbulence"}
            /\ a.name = "temperature"
                 => temperature' = a.value /\ UNCHANGED <<energy, turbulence>>
            /\ a.name = "energy"
                 => energy' = a.value /\ UNCHANGED <<temperature, turbulence>>
            /\ a.name = "turbulence"
                 => turbulence' = a.value /\ UNCHANGED <<temperature, energy>>
            /\ UNCHANGED <<stage, progress, stability>>]_vars

\* setParameter('energy', 0.8) in RNA with progress under way: energy is 0.8,
\* the rest is as the ticks left it
C14_Witness ==
    /\ last.op = "setParameter"
    /\ last.arg.name = "energy"
    /\ last.from = "RNA"
    /\ last.prog > 0
    /\ stage = "RNA"
    /\ progress = last.prog
    /\ energy = 8
    /\ last.arg.value = 8

\* C17: ticks and setParameter calls interleave without lost updates: no
\* tick changes temperature, energy or turbulence, and the tick that follows
\* a setParameter call computes stability and progress from the value that
\* call wrote (and from the two other parameters as they stand).
C17_NoLostUpdate ==
    [][last'.op = "tick" =>
        /\ UNCHANGED <<temperature, energy, turbulence>>
        /\ (last.op = "setParameter" /\ stage' = stage) =>
            LET a == last.arg
                d == last'.arg
                temp == IF a.name = "temperature" THEN a.value ELSE temperature
                en == IF a.name = "energy" THEN a.value ELSE energy
                turb == IF a.name = "turbulence" THEN a.value ELSE turbulence
                tT == CASE stage = "AminoAcids" -> 8 [] stage = "RNA" -> 5
                        [] stage = "Protocell" -> 3 [] OTHER -> 5
                tE == CASE stage = "AminoAcids" -> 8 [] stage = "RNA" -> 5
                        [] stage = "Protocell" -> 2 [] OTHER -> 5
                score == 20 - (Abs(temp - tT) + Abs(en - tE))
                raw == stability + (IF score > 16 THEN 25 ELSE -25) * d
                                 - turb * d
                stab == IF raw < 0 THEN 0 ELSE IF raw > 500 THEN 500 ELSE raw
                prog == IF stab > 250 /\ score > 14
                        THEN progress + 25 * d ELSE progress
            IN  /\ stability' = stab
                /\ progress' = (IF prog > 500 THEN 500 ELSE prog)]_vars

\* a tick has raised the progress of AminoAcids from 0, which the initial
\* parameters do not allow: it used the values setParameter wrote
C17_Witness ==
    /\ last.op = "tick"
    /\ last.arg > 0
    /\ last.from = "AminoAcids"
    /\ last.prog = 0
    /\ stage = "AminoAcids"
    /\ progress = 25 * last.arg
    /\ temperature = 8
    /\ energy = 8

\* C15: setParameter(name, value) stores the value clamped to [0,1] (0 for a
\* value below 0, 1 for a value above 1), so that temperature, energy and
\* turbulence are within [0,1] after every call.
C15_SetParameterClamps ==
    [][last'.op = "setParameter" =>
        LET a == last'.arg
            stored == IF a.name = "temperature" THEN temperature'
                      ELSE IF a.name = "energy" THEN energy'
                      ELSE turbulence'
        IN  /\ stored = Max(0, Min(10, a.value))
            /\ temperature' \in 0..10
            /\ energy' \in 0..10
            /\ turbulence' \in 0..10]_vars

\* C16: a tick whose delta is NaN is skipped: stage, progress and stability
\* are the same after it as before it.
C16_NaNTickSkipped ==
    [][(last'.op = "tick" /\ last'.arg = NaN)
        => UNCHANGED <<stage, progress, stability>>]_vars

\* the species of a list of swarms
ActiveSpecies(swarms) == {swarms[i].modelPath : i \in 1..Len(swarms)}

C19_LaterCountReplaces ==
    (faseAtual = 1 /\ stage = "Life") =>
        /\ \A i, j \in 1..Len(population) :
               population[i].modelPath = population[j].modelPath => i = j
        /\ \A i \in 1..Len(population) :
               population[i].modelPath = "clown_fish_low_poly_animated"
                   => population[i].count = 15

\* C20: for a stage that is not in the order of atLeast (Pangea, Extinction,
\* an unknown value), atLeast is false for every threshold of the order; the
\* lookup gives -1 and nothing is rendered.
C20_UnknownStage ==
    \A s \in {stage, "Unknown"} :
        (\A i \in 1..Len(order) : order[i] # s) =>
            /\ indexOf(order, s) = -1
            /\ \A i \in 1..Len(order) : ~atLeast(s, order[i])
            /\ LifeSpawner(s) = <<>>

\* the skip button has set the stage to Pangea, which is not in the order
C20_Witness ==
    /\ last.op = "skip"
    /\ stage = "Pangea"
    /\ \A i \in 1..Len(order) : ~atLeast(stage, order[i])
    /\ population = <<>>

\* C21: the evolution factor of the land phase is progress/200 at Pangea
\* (within [0,0.5]) and (1 + progress/100)/2 at Extinction (within [0.5,1]),
\* for every progress in [0,100], and it is 0 for each of the four ocean
\* stages.
C21_LandFactor ==
    /\ progress \in 0..500
    /\ (faseAtual = 2 /\ stage = "Pangea")
          => (t = 2 * progress /\ t >= 0 /\ t <= 1000)
    /\ (faseAtual = 2 /\ stage = "Extinction")
          => (t = 1000 + 2 * progress /\ t >= 1000 /\ t <= 2000)
    /\ \A s \in OceanStages : evolutionFactorLand(s, progress) = 0

\* FasePangea has rendered the factor 0.75 at (Extinction, 50) after a tick
C21_Witness ==
    /\ last.op = "tick"
    /\ faseAtual = 2
    /\ stage = "Extinction"
    /\ progress = 250
    /\ t = 1500

\* C22: once the phase is >= 1, the phase on screen is derived from the
\* stage: 1 when the stage is AminoAcids, RNA, Protocell or Life, 2 when it
\* is Pangea or Extinction, after any sequence of ticks, quiz events, skips
\* and callbacks.
C22_PhaseFromStage ==
    faseAtual >= 1 =>
        /\ stage \in {"AminoAcids", "RNA", "Protocell", "Life"}
              => faseAtual = 1
        /\ stage \in {"Pangea", "Extinction"} => faseAtual = 2

\* a phase-complete callback of the atmosphere phase has fired while the
\* stage was Pangea: it set the phase to 1 and the effect set it back to 2
C22_Witness ==
    /\ last.op = "concluida"
    /\ last.from = "Pangea"
    /\ stage = "Pangea"
    /\ faseAtual = 2

\* v lies between a and b, the ends included
Between(v, a, b) == (a <= v /\ v <= b) \/ (b <= v /\ v <= a)

\* C23: a frame update moves a render value toward its target without
\* overshooting: the new value lies between the previous value and the
\* target, for the fixed-rate updates (0.02 and 0.03 per frame) and for the
\* delta-scaled update (rate delta * 1.5) at every frame time delta > 0.
C23_NoOvershoot ==
    [][/\ \A cur \in {0, 8, 15, 45, 70} : \A target \in {8, 15, 45, 70} :
          \A rate \in {2, 3} :
              Between(lerpFixed(cur, target, rate), cur, target)
       /\ (last'.op = "floraFrame" /\ last'.arg > 0)
            => Between(plantGrowth', plantGrowth,
                       targetGrowth(stage, progress))]_vars

\* C24: for every stage and every temperature and energy in [0,1],
\* conditionScore = 1 - (|temperature - target| + |energy - target|)/2 lies
\* in [0,1], and it is 1.0 exactly when both parameters equal the target of
\* the stage.
C24_ScoreRange ==
    (temperature \in 0..10 /\ energy \in 0..10) =>
        LET tT == CASE stage = "AminoAcids" -> 8 [] stage = "RNA" -> 5
                    [] stage = "Protocell" -> 3 [] OTHER -> 5
            tE == CASE stage = "AminoAcids" -> 8 [] stage = "RNA" -> 5
                    [] stage = "Protocell" -> 2 [] OTHER -> 5
            score == conditionScore(stage, temperature, energy)
        IN  /\ score = 20 - (Abs(temperature - tT) + Abs(energy - tE))
            /\ score >= 0
            /\ score <= 20
            /\ score = 20 <=> (temperature = tT /\ energy = tE)

\* a tick at the AminoAcids stage with both parameters 0, the lowest score
\* (0.2): stability fell, progress stayed
C24_Witness ==
    /\ last.op = "tick"
    /\ last.arg = 2
    /\ last.from = "AminoAcids"
    /\ stage = "AminoAcids"
    /\ temperature = 0
    /\ energy = 0
    /\ turbulence = 0
    /\ conditionScore(stage, temperature, energy) = 4
    /\ stability = 450
    /\ progress = last.prog

\* C26: in every state reached by ticks (delta >= 0) and setParameter calls,
\* progress < 100 when the stage is AminoAcids, RNA or Protocell: a tick that
\* reaches 100 there moves to the next stage in the same tick.
C26_ProgressBelow100 ==
    stage \in {"AminoAcids", "RNA", "Protocell"} => progress < 500

\* a tick of 2 s has brought the progress of AminoAcids from 90 to exactly
\* 100: the state after it is RNA with progress 0
C26_Witness ==
    /\ last.op = "tick"
    /\ last.arg = 2
    /\ last.from = "AminoAcids"
    /\ last.prog = 450
    /\ stage = "RNA"
    /\ progress = 0

\* C27: with temperature, energy and turbulence held constant (any values in
\* [0,1]), no sequence of ticks from the initial state of the store reaches
\* the stage Life; with the parameters at the target of AminoAcids, progress
\* is 0 in every state after the transition to RNA.
C27_NoFixedSetting ==
    /\ stage # "Life"
    /\ (temperature = 8 /\ energy = 8 /\ stage # "AminoAcids")
          => (stage = "RNA" /\ progress = 0)

\* the parameters held at the target of AminoAcids: the stage became RNA and
\* a further tick left progress at 0
C27_Witness ==
    /\ last.op = "tick"
    /\ last.arg > 0
    /\ last.from = "RNA"
    /\ temperature = 8
    /\ energy = 8
    /\ stage = "RNA"
    /\ progress = 0
    /\ stability < 250

\* C28 as stated: with temperature and energy at the target of the current
\* stage before every tick (any turbulence) and frame times in a bounded
\* positive range, the stage eventually becomes Life and progress then 100,
\* and stability does not decrease on any such tick.
C28_Original ==
    /\ (faseAtual = 1) ~> (stage = "Life" /\ progress = 500)
    /\ [][last'.op = "tick" => stability' >= stability]_vars

\* C28 as amended: with temperature and energy at the target of the current
\* stage before every tick (any turbulence) and frame times in a bounded
\* positive range, the stage eventually becomes Life and progress then 100;
\* stability does not decrease on such a tick that keeps the stage, and a
\* tick that changes the stage sets it to 50.
C28_TargetReachesLife ==
    /\ (faseAtual = 1) ~> (stage = "Life" /\ progress = 500)
    /\ [][last'.op = "tick" =>
            IF stage' = stage
            THEN stability' >= stability
            ELSE stability' = 250]_vars

\* the ticks at the targets have brought Life to progress 100
C28_Witness ==
    /\ last.op = "tick"
    /\ last.from = "Life"
    /\ stage = "Life"
    /\ progress = 500
    /\ temperature = 5
    /\ energy = 5
    /\ turbulence = 10
    /\ stability = 500

\* C29: with the initial parameters (0.5, 0.2, 0.3) and no user input, every
\* sequence of ticks with delta > 0 keeps the stage AminoAcids and progress
\* 0, and stability eventually is 0 and stays 0.
C29_IdleDecay ==
    /\ [](stage = "AminoAcids" /\ progress = 0)
    /\ <>[](faseAtual = 1 => stability = 0)

\* a tick of one second with the initial parameters found stability at 0
\* and left it there
C29_Witness ==
    /\ last.op = "tick"
    /\ last.arg = 1
    /\ temperature = 5
    /\ energy = 2
    /\ turbulence = 3
    /\ stage = "AminoAcids"
    /\ progress = 0
    /\ stability = 0

\* C30: in the atmosphere phase a click adds 5 to the energy (capped at
\* 100) and schedules the phase-complete callback only when the energy
\* reaches 100 for the first time, so that at most one callback is pending;
\* the callback fires only while the phase is still 0 and was not restarted.
C30_AtmosphereCallback ==
    [][/\ last'.op = "click" =>
            /\ energiaLocal' = Min(energiaLocal + 5, 100)
            /\ atmTimers' > atmTimers => (energiaLocal < 100 /\ atmTimers = 0)
       /\ last'.op = "concluida" =>
            (faseAtual = 0 /\ energiaLocal = 100)]_vars

\* C25: interpolation returns its endpoints exactly: for every pair
\* (start, end) of a channel, lerp(start, end, 0) is start and
\* lerp(start, end, 1) is end.
C25_Endpoints ==
    blend.applied =>
        /\ blend.t = 0 => blend.value = literal(blend.start[1], blend.start[2])
        /\ blend.t = 4 => blend.value = literal(blend.end[1], blend.end[2])

====
